---- MODULE Spec2Model ----
(***************************************************************************)
(* Model of adversarial_attack/utils/utils.py: validate() (the accuracy    *)
(* loop over a data loader) and scale_adv() (the OpenCV resize of batches  *)
(* of adversaries).                                                        *)
(*                                                                         *)
(* Numbers.  Python floats are modelled by the exact rational they hold    *)
(* (a reduced fraction n/d), plus the two IEEE specials "inf" and "nan".   *)
(* `acc` starts as the Python float 0.0 and becomes a numpy float64 by the *)
(* first `acc += np.sum(...)`; the two types differ on division by zero.   *)
(***************************************************************************)
EXTENDS Integers, Sequences, FiniteSets, TLC

(* ------------------------------ bounds -------------------------------- *)
MaxItems == 4
MaxAdvItems == 3
MaxPairItems == 3
MaxBatches == 2
MaxBatchLen == 2

(* ------------------------------ helpers ------------------------------- *)
\* advs=None, and an adversarial set given as a sequence of image batches.
None == [given |-> FALSE, batches |-> <<>>]

Given(a) == [given |-> TRUE, batches |-> a]

Unset == [k |-> "none"]

Min(a, b) == IF a < b THEN a ELSE b

Max(a, b) == IF a < b THEN b ELSE a

RECURSIVE GCD(_, _)
GCD(a, b) == IF b = 0 THEN a ELSE GCD(b, a % b)

\* The float holding n/d (d > 0), as a reduced fraction.
Frac(n, d) ==
  LET g == GCD(n, d)
  IN  [k |-> "num", n |-> n \div g, d |-> d \div g]

Inf == [k |-> "inf"]

NaN == [k |-> "nan"]

SeqsUpTo(S, n) == UNION {[1..m -> S] : m \in 0..n}

RECURSIVE SumSeq(_)
SumSeq(s) == IF s = <<>> THEN 0 ELSE Head(s) + SumSeq(Tail(s))

(* ------------------------- model and data set ------------------------- *)
\* Images are opaque tensors, named by a number; labels are class indices.
Images == {1, 2}

Labels == {0, 1}

\* fmodel.forward: one vector of class scores per image.  Two models over
\* the two images; the second has a tie, which np.argmax resolves to the
\* first maximal index.
Models ==
  { [x \in Images |-> IF x = 1 THEN <<2, 1>> ELSE <<1, 2>>],
    [x \in Images |-> IF x = 1 THEN <<1, 2>> ELSE <<1, 1>>] }

forward(fm, image) == [k \in 1..Len(image) |-> fm[image[k]]]

\* np.argmax(v): the first index holding the maximum (0-based class index).
argmax1(v) ==
  (CHOOSE k \in 1..Len(v) :
     /\ \A j \in 1..Len(v) : v[j] <= v[k]
     /\ \A j \in 1..(k - 1) : v[j] < v[k]) - 1

\* np.argmax(prob, axis=-1): one class index per row of prob.
argmax(prob) == [k \in 1..Len(prob) |-> argmax1(prob[k])]

\* torch DataLoader(dataset, batch_size=b) without shuffling: consecutive
\* chunks of b items, the last one shorter when b does not divide the count.
DataLoader(items, b) ==
  LET n  == Len(items)
      nb == (n + b - 1) \div b
  IN  [j \in 1..nb |->
        LET lo == (j - 1) * b + 1
            hi == Min(j * b, n)
        IN  [image |-> [k \in 1..(hi - lo + 1) |-> items[lo + k - 1].image],
             label |-> [k \in 1..(hi - lo + 1) |-> items[lo + k - 1].label]]]

Items == [image : Images, label : Labels]

(* ------------------------------ validate ------------------------------ *)
Runs == {1, 2}

VARIABLES
  fmodel,        \* the model under validation
  dataset,       \* per run: dataset_loader, a sequence of (image, label) batches
  dataset_size,  \* the caller's dataset_size
  advs,          \* None, or the sequence of adversarial image batches
  batch_size,    \* per run: the batch_size argument
  silent,        \* per run: the silent argument
  pc,            \* per run: "idle", "loop", "done", "error"
  i,             \* per run: batches consumed so far (the next enumerate index)
  acc,           \* per run: [ty, v], the float acc and its Python type
  preds,         \* per run: the list preds
  fed,           \* per run: the arguments fmodel.forward was called with
  postfix,       \* per run: what the progress bar shows ("none" when silent)
  result,        \* per run: the value returned
  err            \* per run: the exception raised, or "none"

vvars == <<fmodel, dataset, dataset_size, advs, batch_size, silent, pc, i, acc,
           preds, fed, postfix, result, err>>

\* `pred == label.numpy()` followed by np.sum: numpy broadcasting.  Equal
\* lengths compare elementwise; a length-1 side is broadcast against the
\* other; any other pair of lengths cannot be broadcast.
Broadcastable(pred, label) ==
  Len(pred) = Len(label) \/ Len(pred) = 1 \/ Len(label) = 1

\* Mutant: np.any in place of np.sum.
MatchAny(pred, label) ==
  IF \E k \in 1..Min(Len(pred), Len(label)) : pred[k] = label[k] THEN 1 ELSE 0

\* Mutant: `pred != label` in place of `pred == label`.
MismatchCount(pred, label) ==
  Cardinality({k \in 1..Min(Len(pred), Len(label)) : pred[k] # label[k]})

MatchCount(pred, label) ==
  LET n == Max(Len(pred), Len(label))
      P(k) == IF Len(pred) = 1 THEN pred[1] ELSE pred[k]
      L(k) == IF Len(label) = 1 THEN label[1] ELSE label[k]
  IN  IF Len(pred) = 0 \/ Len(label) = 0 THEN 0
      ELSE Cardinality({k \in 1..n : P(k) = L(k)})

\* x / y for a float x = [ty, v] holding the integer value v and an int y >= 0.
\* A Python float raises ZeroDivisionError; a numpy float64 yields nan or inf
\* (with a RuntimeWarning only).
TrueDiv(ty, v, y) ==
  IF y # 0 THEN Frac(v, y)
  ELSE IF ty = "float" THEN [k |-> "raise", exc |-> "ZeroDivisionError"]
  ELSE IF v = 0 THEN NaN
  ELSE Inf

\* round-half-even of n/d (n >= 0, d > 0)
RoundHalfEven(n, d) ==
  LET q == n \div d
      r == n % d
  IN  IF 2 * r < d THEN q
      ELSE IF 2 * r > d THEN q + 1
      ELSE IF q % 2 = 0 THEN q ELSE q + 1

\* "{:.2f}%".format(x): x in hundredths, or the text of inf / nan.
Format2f(x) ==
  IF x.k = "num" THEN [k |-> "num", h |-> RoundHalfEven(100 * x.n, x.d)]
  ELSE x

\* Mutant: the loader's images are fed even when advs is given.
ForwardInputOriginal(a, j, image) == image

\* The images given to fmodel.forward for batch index j (0-based).
ForwardInput(a, j, image) == IF a = None THEN image ELSE a.batches[j + 1]

\* Mutant: the running accuracy of the last batch is returned.
FinalAccRunning(r) == TrueDiv(acc[r].ty, acc[r].v * 100, i[r] * batch_size[r])

\* The value run r returns after the loop: acc * 100 / dataset_size.
FinalAcc(r) == TrueDiv(acc[r].ty, acc[r].v * 100, dataset_size)

\* Mutant: `acc = np.sum(...)` in place of `acc += np.sum(...)`.
AddMatchesOverwrite(a, pred, label) ==
  [ty |-> "float64", v |-> MatchCount(pred, label)]

\* acc after `acc += np.sum(pred == label.numpy())`
AddMatches(a, pred, label) ==
  [ty |-> "float64", v |-> a.v + MatchCount(pred, label)]

\* The postfix after the batch: unchanged when silent.
NextPostfix(old, s, a, j, bs) ==
  IF s THEN old ELSE Format2f(TrueDiv(a.ty, a.v * 100, (j + 1) * bs))

\* Entry of validate: the progress bar is set up unless silent.
StartState(r, s) ==
  /\ pc' = [pc EXCEPT ![r] = "loop"]
  /\ postfix' = [postfix EXCEPT ![r] = IF s THEN Unset ELSE [k |-> "num", h |-> 0]]

Start(r) ==
  /\ pc[r] = "idle"
  /\ StartState(r, silent[r])
  /\ UNCHANGED <<fmodel, dataset, dataset_size, advs, batch_size, silent, i,
                 acc, preds, fed, result, err>>

\* One iteration of `for i, (image, label) in enumerate(dl_iter)`.
Batch(r) ==
  /\ pc[r] = "loop"
  /\ i[r] < Len(dataset[r])
  /\ LET b == dataset[r][i[r] + 1]
     IN  IF advs # None /\ i[r] >= Len(advs.batches)
         THEN \* advs[i] raises IndexError
              /\ pc' = [pc EXCEPT ![r] = "error"]
              /\ err' = [err EXCEPT ![r] = "IndexError"]
              /\ UNCHANGED <<i, acc, preds, fed, postfix>>
         ELSE LET x    == ForwardInput(advs, i[r], b.image)
                  pred == argmax(forward(fmodel, x))
              IN  \/ /\ Broadcastable(pred, b.label)
                     /\ acc' = [acc EXCEPT ![r] = AddMatches(acc[r], pred, b.label)]
                     /\ postfix' = [postfix EXCEPT ![r] =
                          NextPostfix(postfix[r], silent[r], acc'[r], i[r], batch_size[r])]
                     /\ preds' = [preds EXCEPT ![r] = Append(preds[r], pred)]
                     /\ fed' = [fed EXCEPT ![r] = Append(fed[r], x)]
                     /\ i' = [i EXCEPT ![r] = i[r] + 1]
                     /\ UNCHANGED <<pc, err>>
                  \/ \* shapes that cannot be broadcast, numpy < 1.25: the
                     \* comparison is the scalar False (DeprecationWarning)
                     /\ ~Broadcastable(pred, b.label)
                     /\ acc' = [acc EXCEPT ![r] = [ty |-> "float64", v |-> acc[r].v]]
                     /\ postfix' = [postfix EXCEPT ![r] =
                          NextPostfix(postfix[r], silent[r], acc'[r], i[r], batch_size[r])]
                     /\ preds' = [preds EXCEPT ![r] = Append(preds[r], pred)]
                     /\ fed' = [fed EXCEPT ![r] = Append(fed[r], x)]
                     /\ i' = [i EXCEPT ![r] = i[r] + 1]
                     /\ UNCHANGED <<pc, err>>
                  \/ \* shapes that cannot be broadcast, numpy >= 1.25: ValueError
                     /\ ~Broadcastable(pred, b.label)
                     /\ pc' = [pc EXCEPT ![r] = "error"]
                     /\ err' = [err EXCEPT ![r] = "ValueError"]
                     /\ preds' = [preds EXCEPT ![r] = Append(preds[r], pred)]
                     /\ fed' = [fed EXCEPT ![r] = Append(fed[r], x)]
                     /\ UNCHANGED <<i, acc, postfix>>
  /\ UNCHANGED <<fmodel, dataset, dataset_size, advs, batch_size, silent, result>>

\* After the loop: `acc = acc * 100 / dataset_size; return acc`.
Return(r) ==
  /\ pc[r] = "loop"
  /\ i[r] = Len(dataset[r])
  /\ LET v == FinalAcc(r)
     IN  IF v.k = "raise"
         THEN /\ pc' = [pc EXCEPT ![r] = "error"]
              /\ err' = [err EXCEPT ![r] = v.exc]
              /\ UNCHANGED result
         ELSE /\ pc' = [pc EXCEPT ![r] = "done"]
              /\ result' = [result EXCEPT ![r] = v]
              /\ UNCHANGED err
  /\ UNCHANGED <<fmodel, dataset, dataset_size, advs, batch_size, silent, i, acc,
                 preds, fed, postfix>>

(* ------------------------------ scale_adv ----------------------------- *)
\* The keys of interpolation_methods and the cv2 flags they name.
interpolation_methods ==
  [name \in {"INTER_NEAREST", "INTER_LINEAR", "INTER_AREA", "INTER_CUBIC",
             "INTER_LANCZOS4"} |->
     CASE name = "INTER_NEAREST"  -> 0
       [] name = "INTER_LINEAR"   -> 1
       [] name = "INTER_CUBIC"    -> 2
       [] name = "INTER_AREA"     -> 3
       [] name = "INTER_LANCZOS4" -> 4]

\* Names a caller may pass: the five keys and two that are not keys.
MethodNames == DOMAIN interpolation_methods \cup {"nearest", "INTER_MAX"}

\* resize_scale as a fraction n/d with d > 0.
Scales == {[n |-> -1, d |-> 1], [n |-> 0, d |-> 1], [n |-> 1, d |-> 2],
           [n |-> 1, d |-> 1], [n |-> 2, d |-> 1]}

\* Channel-first image shapes (c, h, w) of an input array.
Shapes == [c : {1, 3}, h : {1, 3}, w : {2}]

\* A batch of advs: images of one shape, each named by its place in the input.
AdvBatch(b, len, sh) ==
  [k \in 1..len |-> [id |-> <<b, k>>, c |-> sh.c, h |-> sh.h, w |-> sh.w]]

AdvInput(lens, sh) == [b \in 1..Len(lens) |-> AdvBatch(b, lens[b], sh)]

VARIABLES
  s_advs,                \* the argument advs
  resize_scale,          \* the argument resize_scale
  interpolation_method,  \* the argument interpolation_method
  s_pc,                  \* "idle", "loop", "done", "error"
  interpolation,         \* the cv2 flag looked up, -1 before the lookup
  resized_advs,          \* the list resized_advs
  s_err                  \* the exception raised, or "none"

svars == <<s_advs, resize_scale, interpolation_method, s_pc, interpolation,
           resized_advs, s_err>>

vars == <<vvars, svars>>

\* cvRound(x * n / d) for x > 0, n > 0: round half to even.
cvRound(x, sc) == RoundHalfEven(x * sc.n, sc.d)

\* cv2.resize(np.moveaxis(adv, 0, 2), (0, 0), fx=sc, fy=sc, ...) followed by
\* np.moveaxis(resized, 2, 0).  cv2 asserts fx > 0, fy > 0 and a non-empty
\* output size; it returns a 2-d array for a single channel, on which
\* moveaxis(., 2, 0) raises AxisError.
ResizeOne(adv, sc) ==
  IF sc.n <= 0 THEN [k |-> "raise", exc |-> "cv2.error"]
  ELSE IF cvRound(adv.w, sc) = 0 \/ cvRound(adv.h, sc) = 0
       THEN [k |-> "raise", exc |-> "cv2.error"]
  ELSE IF adv.c = 1 THEN [k |-> "raise", exc |-> "AxisError"]
  ELSE [k |-> "ok",
        img |-> [id |-> adv.id, c |-> adv.c,
                 h |-> cvRound(adv.h, sc), w |-> cvRound(adv.w, sc)]]

\* The inner loop over one batch: the resized batch, or the first exception.
RECURSIVE ResizeFrom(_, _, _, _)
ResizeFrom(adv_batch, k, sc, out) ==
  IF k > Len(adv_batch) THEN [k |-> "ok", batch |-> out]
  ELSE LET r == ResizeOne(adv_batch[k], sc)
       IN  IF r.k = "raise" THEN r
           ELSE ResizeFrom(adv_batch, k + 1, sc, Append(out, r.img))

\* Mutant: the first image of every batch is skipped.
ResizeBatchSkipFirst(adv_batch, sc) == ResizeFrom(adv_batch, 2, sc, <<>>)

ResizeBatch(adv_batch, sc) == ResizeFrom(adv_batch, 1, sc, <<>>)

\* Mutant: interpolation_methods.get(name, cv2.INTER_LINEAR).
LookupDefault(name) ==
  IF name \in DOMAIN interpolation_methods
  THEN [k |-> "ok", flag |-> interpolation_methods[name]]
  ELSE [k |-> "ok", flag |-> 1]

\* The dictionary lookup `interpolation_methods[interpolation_method]`.
Lookup(name) ==
  IF name \in DOMAIN interpolation_methods
  THEN [k |-> "ok", flag |-> interpolation_methods[name]]
  ELSE [k |-> "raise", exc |-> "KeyError"]

\* Entry of scale_adv: the lookup, then `resized_advs = []`.
ScaleStart ==
  /\ s_pc = "idle"
  /\ LET l == Lookup(interpolation_method)
     IN  IF l.k = "raise"
         THEN /\ s_pc' = "error"
              /\ s_err' = l.exc
              /\ UNCHANGED interpolation
         ELSE /\ s_pc' = "loop"
              /\ interpolation' = l.flag
              /\ UNCHANGED s_err
  /\ UNCHANGED <<s_advs, resize_scale, interpolation_method, resized_advs>>
  /\ UNCHANGED vvars

\* One iteration of `for adv_batch in advs`.
ScaleBatch ==
  /\ s_pc = "loop"
  /\ Len(resized_advs) < Len(s_advs)
  /\ LET r == ResizeBatch(s_advs[Len(resized_advs) + 1], resize_scale)
     IN  IF r.k = "raise"
         THEN /\ s_pc' = "error"
              /\ s_err' = r.exc
              /\ UNCHANGED resized_advs
         ELSE /\ resized_advs' = Append(resized_advs, r.batch)
              /\ UNCHANGED <<s_pc, s_err>>
  /\ UNCHANGED <<s_advs, resize_scale, interpolation_method, interpolation>>
  /\ UNCHANGED vvars

\* `return resized_advs`
ScaleReturn ==
  /\ s_pc = "loop"
  /\ Len(resized_advs) = Len(s_advs)
  /\ s_pc' = "done"
  /\ UNCHANGED <<s_advs, resize_scale, interpolation_method, interpolation,
                 resized_advs, s_err>>
  /\ UNCHANGED vvars

(* --------------------------- specifications --------------------------- *)
ValidateIdle ==
  /\ pc = [r \in Runs |-> "idle"]
  /\ i = [r \in Runs |-> 0]
  /\ acc = [r \in Runs |-> [ty |-> "float", v |-> 0]]
  /\ preds = [r \in Runs |-> <<>>]
  /\ fed = [r \in Runs |-> <<>>]
  /\ postfix = [r \in Runs |-> Unset]
  /\ result = [r \in Runs |-> Unset]
  /\ err = [r \in Runs |-> "none"]

ScaleIdle ==
  /\ s_pc = "idle"
  /\ interpolation = -1
  /\ resized_advs = <<>>
  /\ s_err = "none"

\* Some fixed arguments for the operation a specification does not run.
ScaleArgsFixed ==
  /\ s_advs = <<>>
  /\ resize_scale = [n |-> 1, d |-> 1]
  /\ interpolation_method = "INTER_NEAREST"

ValidateArgsFixed ==
  /\ fmodel = CHOOSE m \in Models : TRUE
  /\ dataset = [r \in Runs |-> <<>>]
  /\ dataset_size = 0
  /\ advs = None
  /\ batch_size = [r \in Runs |-> 4]
  /\ silent = [r \in Runs |-> FALSE]

\* Spec: one call of validate on the loader load_dataset builds, with the
\* default batch_size and silent, on original images (advs = None).
Init ==
  /\ fmodel \in Models
  /\ \E items \in SeqsUpTo(Items, MaxItems) :
       \E b \in 1..Max(1, Len(items)) :
          dataset = [r \in Runs |-> DataLoader(items, b)]
  /\ dataset_size \in 0..(MaxItems + 1)
  /\ advs = None
  /\ batch_size = [r \in Runs |-> 4]
  /\ silent = [r \in Runs |-> FALSE]
  /\ ValidateIdle
  /\ ScaleArgsFixed
  /\ ScaleIdle

Next ==
  \/ (Start(1) /\ UNCHANGED svars)
  \/ (Batch(1) /\ UNCHANGED svars)
  \/ (Return(1) /\ UNCHANGED svars)

Spec == Init /\ [][Next]_vars

\* Every way to cut n items into consecutive non-empty batches.
Compositions(n) == {c \in SeqsUpTo(1..Max(1, n), n) : SumSeq(c) = n}

\* Any iterable of batches may stand for dataset_loader: items cut at lens.
Batches(items, lens) ==
  [j \in 1..Len(lens) |->
     LET lo == SumSeq(SubSeq(lens, 1, j - 1))
     IN  [image |-> [k \in 1..lens[j] |-> items[lo + k].image],
          label |-> [k \in 1..lens[j] |-> items[lo + k].label]]]

\* Sequences of non-empty image batches holding at most n images in all.
AdvSets(n) ==
  UNION {{[j \in 1..Len(c) |->
             [k \in 1..c[j] |-> x[SumSeq(SubSeq(c, 1, j - 1)) + k]]] :
            c \in Compositions(m), x \in [1..m -> Images]} : m \in 0..n}

\* What a caller may pass as advs.
AdvChoices == {None} \cup {Given(a) : a \in AdvSets(MaxAdvItems)}

\* Items whose image is the unperturbed image 1.
OriginalItems == [image : {1}, label : Labels]

\* SpecAdv: one call of validate with the dataset_size load_dataset returns,
\* on original images (all image 1) or on an adversarial set (images 1 or 2)
\* that may or may not be aligned with the loader's batches.
InitAdv ==
  /\ fmodel \in Models
  /\ \E items \in SeqsUpTo(OriginalItems, MaxAdvItems) :
       /\ \E b \in 1..Max(1, Len(items)) :
             dataset = [r \in Runs |-> DataLoader(items, b)]
       /\ dataset_size = Len(items)
  /\ advs \in AdvChoices
  /\ batch_size = [r \in Runs |-> 4]
  /\ silent = [r \in Runs |-> FALSE]
  /\ ValidateIdle
  /\ ScaleArgsFixed
  /\ ScaleIdle

SpecAdv == InitAdv /\ [][Next]_vars

\* Two calls of validate, one after the other (the program is
\* single-threaded): run 2 starts when run 1 has returned or raised.
Finished(r) == pc[r] \in {"done", "error"}

NextPair ==
  \/ (Start(1) /\ UNCHANGED svars)
  \/ (Batch(1) /\ UNCHANGED svars)
  \/ (Return(1) /\ UNCHANGED svars)
  \/ (Finished(1) /\ Start(2) /\ UNCHANGED svars)
  \/ (Batch(2) /\ UNCHANGED svars)
  \/ (Return(2) /\ UNCHANGED svars)

\* SpecPart: the same items, model and dataset_size, batched in two ways.
InitPart ==
  /\ fmodel \in Models
  /\ \E items \in SeqsUpTo(Items, MaxPairItems) :
       /\ \E b \in 1..Max(1, Len(items)), c \in Compositions(Len(items)) :
             dataset = [r \in Runs |-> IF r = 1 THEN DataLoader(items, b)
                                               ELSE Batches(items, c)]
       /\ dataset_size \in {Len(items), Len(items) + 1}
  /\ advs = None
  /\ batch_size = [r \in Runs |-> 4]
  /\ silent = [r \in Runs |-> FALSE]
  /\ ValidateIdle
  /\ ScaleArgsFixed
  /\ ScaleIdle

SpecPart == InitPart /\ [][NextPair]_vars

\* The adversarial set aligned with a loader, every image replaced by x.
AlignedAdvs(d, x) == [j \in 1..Len(d) |-> [k \in 1..Len(d[j].image) |-> x]]

\* SpecObs: the same model, loader, dataset_size and advs; run 1 with the
\* default batch_size and silent, run 2 with any.
InitObs ==
  /\ fmodel \in Models
  /\ \E items \in SeqsUpTo(Items, MaxPairItems) :
       /\ \E b \in 1..Max(1, Len(items)) :
             /\ dataset = [r \in Runs |-> DataLoader(items, b)]
             /\ advs \in {None, Given(AlignedAdvs(DataLoader(items, b), 2))}
       /\ dataset_size \in {0, Len(items)}
  /\ \E bs \in {0, 1, 2, 4} : batch_size = [r \in Runs |-> IF r = 1 THEN 4 ELSE bs]
  /\ \E s \in BOOLEAN : silent = [r \in Runs |-> IF r = 1 THEN FALSE ELSE s]
  /\ ValidateIdle
  /\ ScaleArgsFixed
  /\ ScaleIdle

SpecObs == InitObs /\ [][NextPair]_vars

\* SpecScale: one call of scale_adv.
InitScale ==
  /\ \E lens \in SeqsUpTo(0..MaxBatchLen, MaxBatches) :
       \E sh \in Shapes : s_advs = AdvInput(lens, sh)
  /\ resize_scale \in Scales
  /\ interpolation_method \in MethodNames
  /\ ScaleIdle
  /\ ValidateArgsFixed
  /\ ValidateIdle

NextScale == ScaleStart \/ ScaleBatch \/ ScaleReturn

SpecScale == InitScale /\ [][NextScale]_vars

(* ------------------------------- claims ------------------------------- *)
\* The class the model predicts for one image.
Predicted(x) == argmax1(fmodel[x])

\* The (batch, position) pairs of run r's loader.
Positions(r) ==
  UNION {{<<j, k>> : k \in 1..Len(dataset[r][j].label)} : j \in 1..Len(dataset[r])}

\* The pairs at which the prediction for the loader's own image is the label.
Matching(r) ==
  {p \in Positions(r) :
     Predicted(dataset[r][p[1]].image[p[2]]) = dataset[r][p[1]].label[p[2]]}

\* C1: with dataset_size > 0, validate on original images returns exactly
\* 100 * M / dataset_size, M the number of (batch, position) pairs whose
\* arg-max class is the label: 100 when every pair of a data set of
\* dataset_size items matches, 0 when none does, 75 for 3 matches out of 4.
C1_Accuracy ==
  (pc[1] = "done" /\ dataset_size > 0) =>
     LET M == Cardinality(Matching(1))
     IN  /\ result[1].k = "num"
         /\ result[1].n * dataset_size = 100 * M * result[1].d
         /\ (M = dataset_size /\ M = Cardinality(Positions(1)))
               => result[1] = [k |-> "num", n |-> 100, d |-> 1]
         /\ M = 0 => result[1] = [k |-> "num", n |-> 0, d |-> 1]
         /\ (M = 3 /\ dataset_size = 4)
               => result[1] = [k |-> "num", n |-> 75, d |-> 1]

C1_Witness ==
  /\ pc[1] = "done"
  /\ dataset_size = 4
  /\ Len(dataset[1]) = 2
  /\ Cardinality(Positions(1)) = 4
  /\ Cardinality(Matching(1)) = 3
  /\ result[1] = [k |-> "num", n |-> 75, d |-> 1]

\* C2: with dataset_size = 0 validate raises and never returns a value,
\* whether the data set has no batch or some.
C2_ZeroSizeNeverReturns == dataset_size = 0 => pc[1] # "done"

\* C3: a batch whose prediction count differs from its label count stops
\* validate with an error at that batch: no batch with such a mismatch is
\* ever counted or passed.
C3_MismatchStops ==
  \A k \in 1..i[1] : Len(preds[1][k]) = Len(dataset[1][k].label)

\* The images batch index k (1-based) must be fed with.
Expected(k) == IF advs.given THEN advs.batches[k] ELSE dataset[1][k].image

\* Every adversarial batch has as many images as the loader's batch has labels.
Aligned ==
  advs.given =>
    /\ Len(advs.batches) >= Len(dataset[1])
    /\ \A k \in 1..Len(dataset[1]) :
         Len(advs.batches[k]) = Len(dataset[1][k].label)

\* Matches of the expected images of batch k against the labels of batch k.
ExpectedMatches(k) ==
  Cardinality({p \in 1..Len(dataset[1][k].label) :
                 Predicted(Expected(k)[p]) = dataset[1][k].label[p]})

\* C4: the k-th call of fmodel.forward gets advs[k] when an adversarial set
\* is given and the images of loader batch k otherwise; batches are visited
\* once each, in order, none skipped, and a call that returns has visited
\* them all; the predictions are compared with the labels of loader batch k.
C4_FeedsInOrder ==
  /\ Len(fed[1]) \in {i[1], i[1] + 1}
  /\ Len(fed[1]) <= Len(dataset[1])
  /\ \A k \in 1..Len(fed[1]) : fed[1][k] = Expected(k)
  /\ pc[1] = "done" => Len(fed[1]) = Len(dataset[1])
  /\ Aligned => acc[1].v = SumSeq([k \in 1..i[1] |-> ExpectedMatches(k)])

C4_Witness ==
  /\ pc[1] = "done"
  /\ advs.given
  /\ Aligned
  /\ Len(dataset[1]) >= 2
  /\ \E k \in 1..Len(dataset[1]) : advs.batches[k] # dataset[1][k].image
  /\ acc[1].v > 0

\* C5: two calls on the same item sequence, model and dataset_size, the
\* items cut into batches in two ways, end alike and return the same value.
C5_PartitionInvariant ==
  (Finished(1) /\ Finished(2)) =>
     /\ pc[1] = pc[2]
     /\ result[1] = result[2]
     /\ err[1] = err[2]

C5_Witness ==
  /\ pc[1] = "done"
  /\ pc[2] = "done"
  /\ Len(dataset[1]) = 1
  /\ Len(dataset[2]) = 3
  /\ result[2].k = "num"
  /\ result[2].n > 0

\* C9: two calls that differ only in silent and batch_size end alike and
\* return the same value.
C9_ProgressNeverAffectsResult ==
  (Finished(1) /\ Finished(2)) =>
     /\ pc[1] = pc[2]
     /\ result[1] = result[2]
     /\ err[1] = err[2]
     /\ preds[1] = preds[2]

C9_Witness ==
  /\ pc[1] = "done"
  /\ pc[2] = "done"
  /\ silent[2]
  /\ batch_size[2] = 0
  /\ postfix[1] # postfix[2]
  /\ result[2].k = "num"
  /\ result[2].n > 0

\* Labels consumed by the first n batches.
Processed(n) == SumSeq([k \in 1..n |-> Len(dataset[1][k].label)])

\* C10: when dataset_size is positive and is the number of labels, and every
\* batch has as many predictions as labels, the running match count never
\* decreases and never exceeds the items processed, a batch that is entirely
\* misclassified leaves it unchanged, and the value returned is in [0, 100].
C10_RunningCount ==
  [][ (Aligned /\ dataset_size > 0 /\ dataset_size = Processed(Len(dataset[1]))) =>
        /\ acc'[1].v >= acc[1].v
        /\ acc'[1].v <= Processed(i'[1])
        /\ (i'[1] = i[1] + 1 /\ ExpectedMatches(i'[1]) = 0) => acc'[1].v = acc[1].v
        /\ pc'[1] = "done" =>
             /\ result'[1].k = "num"
             /\ 0 <= result'[1].n
             /\ result'[1].n <= 100 * result'[1].d ]_vars

C10_Witness ==
  /\ pc[1] = "done"
  /\ advs.given
  /\ Aligned
  /\ dataset_size = 3
  /\ Len(dataset[1]) = 3
  /\ \E k \in 1..Len(dataset[1]) : ExpectedMatches(k) = 0
  /\ acc[1].v = 2

\* C6: with a key of interpolation_methods and resize_scale > 0, the batches
\* resized so far, and the list returned, mirror the input: as many batches,
\* as many images in each batch, the images in the input's order.
C6_StructureMirrorsInput ==
  (interpolation_method \in DOMAIN interpolation_methods /\ resize_scale.n > 0) =>
     /\ Len(resized_advs) <= Len(s_advs)
     /\ s_pc = "done" => Len(resized_advs) = Len(s_advs)
     /\ \A b \in 1..Len(resized_advs) :
          /\ Len(resized_advs[b]) = Len(s_advs[b])
          /\ \A k \in 1..Len(resized_advs[b]) :
               resized_advs[b][k].id = s_advs[b][k].id

C6_Witness ==
  /\ s_pc = "done"
  /\ resize_scale = [n |-> 1, d |-> 2]
  /\ Len(s_advs) = 2
  /\ Len(s_advs[1]) = 2
  /\ Len(s_advs[2]) = 1
  /\ resized_advs[1][2].h = 2

\* C7: a name that is no key of interpolation_methods makes scale_adv raise
\* at the lookup, for every input: nothing is resized and nothing returned.
C7_UnknownNameRaises ==
  (interpolation_method \notin DOMAIN interpolation_methods /\ s_pc # "idle") =>
     /\ s_pc = "error"
     /\ s_err = "KeyError"
     /\ resized_advs = <<>>
     /\ interpolation = -1

C7_Witness ==
  /\ s_pc = "error"
  /\ s_err = "KeyError"
  /\ interpolation_method = "INTER_MAX"
  /\ s_advs = <<>>

\* C8: with resize_scale <= 0 and a key of interpolation_methods, scale_adv
\* raises and never returns, for every input.
C8_NonPositiveScaleNeverReturns ==
  (resize_scale.n <= 0 /\ interpolation_method \in DOMAIN interpolation_methods)
     => s_pc # "done"

====
